---- MODULE Spec2Model ----
(***************************************************************************)
(* State-machine model of the syncrepl_client mirror engine                *)
(* (src/syncrepl_client/__init__.py, class Syncrepl) and of the table      *)
(* syncrepl_records it keeps in SQLite (src/syncrepl_client/db.py).        *)
(*                                                                         *)
(* A session is modelled, opened on a new data file.  The transport        *)
(* (python-ldap's SyncreplConsumer) calls the handlers syncrepl_entry,     *)
(* syncrepl_present, syncrepl_delete, syncrepl_set_cookie and              *)
(* syncrepl_refreshdone; each handler is one action.  A handler that       *)
(* raises leaves its exception's name in err; what it wrote to the open    *)
(* transaction before raising stays written, as no handler rolls back.     *)
(*                                                                         *)
(* The handlers are modelled statement by statement, faults included (an   *)
(* unbound name, a uuid passed where a list is iterated, a raise).  The    *)
(* connection they use is modelled by what its SQL means on the table of   *)
(* db.py's schema: cursor(), execute() and commit() are taken to work.     *)
(*                                                                         *)
(* The specifications share the variables.  Spec has the handlers with     *)
(* every input, for the properties of the table.  SessionSpec adds the     *)
(* application's calls (poll, please_stop, unbind) to the messages about   *)
(* one entry, for the properties of phases, commits and cancellation.      *)
(* FairSessionSpec is SessionSpec for an application that polls until      *)
(* poll returns False, with a server that answers the Cancel, and          *)
(* LockSpec is SessionSpec with a Cancel that may fail.  StoreSpec         *)
(* has sessions one after the other on one data file, ClosedSpec the calls *)
(* made on an unbound instance, and UrlSpec the constructor with every     *)
(* value of its ldap_url argument.                                         *)
(*                                                                         *)
(* SchemaSpec is about db.py itself: the constructor of DBInterface and    *)
(* its schema methods are modelled as db.py has them, faults included,     *)
(* on data files of any schema version.                                    *)
(***************************************************************************)
EXTENDS Naturals, Sequences, FiniteSets, TLC

\* Longest list of UUIDs one presence or delete message carries.
MaxUuids == 2

\* The entryUUIDs, DNs, attribute dictionaries and cookies the server uses.
UUIDs == {"U1", "U2"}
DNs == {"cn=a", "cn=b"}
AttrSets == {"attrs1", "attrs2"}
Cookies == {"K1", "K2"}

\* Python's None, for a setting that was never stored.
NoValue == "None"

\* SyncreplMode
REFRESH_ONLY == "refreshOnly"
REFRESH_AND_PERSIST == "refreshAndPersist"
SyncreplMode == {REFRESH_ONLY, REFRESH_AND_PERSIST}

\* How self.syncrepl_poll(all=1, timeout=3) can end once the messages that
\* arrived have been handled: ldap.TIMEOUT, ldap.CANCELLED, or the return of
\* False at the end of the search.
TIMEOUT == "TIMEOUT"
CANCELLED == "CANCELLED"
SearchDone == "False"
PollEndings == {TIMEOUT, CANCELLED, SearchDone}

\* Whether sqlite3 commits the open transaction before a statement that is
\* neither DML nor a query (PRAGMA): it does up to Python 3.5 and does not
\* from Python 3.6 on; setup.py accepts both.
ImplicitCommits == BOOLEAN

\* db.CURRENT_SCHEMA_VERSION
CURRENT_SCHEMA_VERSION == 1

\* Largest schema version a data file written by some other release carries.
MaxSchemaVersion == 2

\* The tables of the schema.
SchemaTables == {"syncrepl_schema", "syncrepl_records", "syncrepl_settings"}

\* What a data file holds of the schema: the tables that exist and the
\* version numbers in the rows of syncrepl_schema.
Schema(tables, versions) == [tables |-> tables, versions |-> versions]

\* The schema _upgrade_schema(0) is written to produce.
CurrentSchema == Schema(SchemaTables, {CURRENT_SCHEMA_VERSION})

\* An ldapurl.LDAPUrl: where to connect and as whom (hostport, who) and what
\* to search for (dn, attrs, scope, filterstr).  attrs and filterstr may be
\* None; scope is ldap.SCOPE_BASE (0) or ldap.SCOPE_SUBTREE (2).
UrlHosts == {"ldap1"}
UrlWhos == {NoValue, "cn=reader"}
UrlDns == {"dc=a", "dc=b"}
UrlAttrs == {NoValue, "cn"}
UrlScopes == {0, 2}
UrlFilters == {NoValue, "(cn=*)"}
LDAPUrl == [hostport : UrlHosts, who : UrlWhos, dn : UrlDns, attrs : UrlAttrs,
            scope : UrlScopes, filterstr : UrlFilters]

\* str(ldap_url): the text ldap://hostport/dn?attrs?scope?filter?bindname=who,
\* as the tuple of its parts.  None is written as the empty string, the scope
\* by its name, and no bindname extension is written for who = None.
NoneAsEmpty(v) == IF v = NoValue THEN "" ELSE v
ScopeStr(scope) == IF scope = 0 THEN "base" ELSE "sub"
UrlStr(u) ==
    <<u.hostport, u.dn, NoneAsEmpty(u.attrs), ScopeStr(u.scope),
      NoneAsEmpty(u.filterstr)>>
        \o (IF u.who = NoValue THEN <<>> ELSE <<u.who>>)

\* ldapurl.LDAPUrl(text): the object parsed from the text.
EmptyAsNone(t) == IF t = "" THEN NoValue ELSE t
StrScope(t) == IF t = "base" THEN 0 ELSE 2
ParseUrl(t) ==
    [hostport |-> t[1], dn |-> t[2], attrs |-> EmptyAsNone(t[3]),
     scope |-> StrScope(t[4]), filterstr |-> EmptyAsNone(t[5]),
     who |-> IF Len(t) > 5 THEN t[6] ELSE NoValue]

\* The value of setting syncrepl_url in a data file that never stored one.
NoUrl == <<>>

\* The ldap_url argument of Syncrepl.__init__: an LDAPUrl object, the text of
\* one, a text that is no LDAP URL, or None.
UrlArg(kind, u) == [kind |-> kind, url |-> u]
UrlArgKinds == {"LDAPUrl", "str", "unparsable", "None"}

\* The URL the session of Init was constructed with.
InitialUrl ==
    [hostport |-> "ldap1", who |-> NoValue, dn |-> "dc=a", attrs |-> NoValue,
     scope |-> 2, filterstr |-> NoValue]

\* What is remembered of the session before: whether it was unbound, its
\* phase and what it had accumulated of the uuids reported present.
Previous(unbound, inr, present) ==
    [deleted |-> unbound, in_refresh |-> inr, present_uuids |-> present]
NoPrevious == Previous(TRUE, TRUE, {})

\* Lists of length 0..MaxUuids
UuidLists == UNION {[1..n -> UUIDs] : n \in 0..MaxUuids}

Range(s) == {s[i] : i \in 1..Len(s)}

VARIABLES
    rows,                \* syncrepl_records as the open connection sees it
    cookie,              \* setting syncrepl_cookie as the open connection sees it
    disk,                \* what the last commit made durable: [rows, cookie]
    in_refresh,          \* self.__in_refresh
    present_uuids,       \* self.__present_uuids (its elements; only "in" reads it)
    has_present_uuids,   \* FALSE once "del self.__present_uuids" has run
    call,                \* the handler call made last, with its arguments
    events,              \* the callbacks that call made, in order
    err,                 \* the exception that call raised, "" when it returned
    mode,                \* the SyncreplMode the search was started with
    please_stop_value,   \* self.__please_stop
    cancel_sent,         \* self.cancel(...) has been called for the search
    transport,           \* how syncrepl_poll ended in the poll made last
    poll_output,         \* what that poll returned, NoValue when it raised
    deleted,             \* self.deleted
    ldap_url,            \* the ldap_url argument Syncrepl.__init__ was given
    disk_url,            \* setting syncrepl_url in the data file
    schema,              \* the tables and schema version a connection sees
    disk_schema,         \* the tables and schema version in the data file
    previous,            \* the session before this one, as it was left
    please_stop_lock     \* TRUE while self.__please_stop_lock is held

vars == <<rows, cookie, disk, in_refresh, present_uuids, has_present_uuids,
          call, events, err, mode, please_stop_value, cancel_sent, transport,
          poll_output, deleted, ldap_url, disk_url, schema, disk_schema,
          previous, please_stop_lock>>

\* What only the constructors and the schema methods touch.
store == <<ldap_url, disk_url, schema, disk_schema, previous>>

\* What the session-level methods leave alone when a handler runs.
session ==
    <<mode, please_stop_value, cancel_sent, transport, poll_output, deleted,
      please_stop_lock>>

----------------------------------------------------------------------------
(* Callbacks (the notification sink) *)

Event(kind, dn, new_dn, old_attrs, new_attrs) ==
    [kind |-> kind, dn |-> dn, new_dn |-> new_dn,
     old_attrs |-> old_attrs, new_attrs |-> new_attrs]

record_add(dn, attrs) == Event("record_add", dn, "", "", attrs)
record_delete(dn) == Event("record_delete", dn, "", "", "")
record_rename(old_dn, new_dn) == Event("record_rename", old_dn, new_dn, "", "")
record_change(dn, old_attrs, new_attrs) ==
    Event("record_change", dn, "", old_attrs, new_attrs)
cookie_change(c) == Event("cookie_change", c, "", "", "")
bind_complete == Event("bind_complete", "", "", "", "")
refresh_done == Event("refresh_done", "", "", "", "")
\* Not a callback: the Cancel operation poll sends to the server.
cancel == Event("cancel", "", "", "", "")

----------------------------------------------------------------------------
(* The SQL statements the handlers execute on syncrepl_records, a table    *)
(* with uuid PRIMARY KEY and dn UNIQUE.  A statement that would break a    *)
(* constraint fails as a whole (sqlite3.IntegrityError).                   *)

Row(uuid, dn, attrs) == [uuid |-> uuid, dn |-> dn, attrs |-> attrs]

\* SELECT dn, attributes FROM syncrepl_records WHERE uuid = ?
SelectByUuid(rs, uuid) == {r \in rs : r.uuid = uuid}

\* SELECT uuid FROM syncrepl_records WHERE dn = ?
SelectByDn(rs, dn) == {r \in rs : r.dn = dn}

\* fetchone() of a result that is not empty
FetchOne(result) == CHOOSE r \in result : TRUE

\* (a DELETE whose WHERE clause names the wrong column)
DeleteWrongKey(rs, uuid) == {r \in rs : r.dn # uuid}

\* DELETE FROM syncrepl_records WHERE uuid = ?
DeleteByUuid(rs, uuid) == {r \in rs : r.uuid # uuid}

\* dn TEXT UNIQUE: may the row of uuid take this dn?
DnIsFree(rs, uuid, dn) == \A r \in rs : r.dn = dn => r.uuid = uuid

\* (an UPDATE whose WHERE clause names the wrong column)
UpdateDnWrongKey(rs, uuid, dn) ==
    {IF r.dn = uuid THEN Row(r.uuid, dn, r.attrs) ELSE r : r \in rs}

\* UPDATE syncrepl_records SET dn = ? WHERE uuid = ?
UpdateDn(rs, uuid, dn) ==
    {IF r.uuid = uuid THEN Row(r.uuid, dn, r.attrs) ELSE r : r \in rs}

\* (an UPDATE of the attributes whose WHERE clause names the wrong column)
UpdateAttrsWrongKey(rs, uuid, attrs) ==
    {IF r.dn = uuid THEN Row(r.uuid, r.dn, attrs) ELSE r : r \in rs}

\* UPDATE syncrepl_records SET attributes = ? WHERE uuid = ?
UpdateAttrs(rs, uuid, attrs) ==
    {IF r.uuid = uuid THEN Row(r.uuid, r.dn, attrs) ELSE r : r \in rs}

\* INSERT INTO syncrepl_records (uuid, dn, attributes) VALUES (?, ?, ?)
InsertAllowed(rs, uuid, dn) == \A r \in rs : r.uuid # uuid /\ r.dn # dn

Insert(rs, uuid, dn, attrs) == rs \cup {Row(uuid, dn, attrs)}

\* self.__db.commit(): the open transaction becomes durable
Commit(rs, ck) == [rows |-> rs, cookie |-> ck]

----------------------------------------------------------------------------
(* What a handler did: the table it leaves, the callbacks it made, the     *)
(* exception it raised ("" for none), whether it reached a commit and the  *)
(* table as that commit saved it.                                          *)

Outcome(rs, evs, e, committed, saved) ==
    [rows |-> rs, events |-> evs, err |-> e, commit |-> committed, saved |-> saved]

Returned(rs, evs) == Outcome(rs, evs, "", FALSE, {})

Raised(rs, evs, e) == Outcome(rs, evs, e, FALSE, {})

----------------------------------------------------------------------------
(* syncrepl_delete(uuids) *)

\* The for loop: look the uuid up, raise if it is unknown, else DELETE the
\* row and call record_delete with the dn read.  Rows deleted before a raise
\* stay deleted in the open transaction.
RECURSIVE DeleteLoop(_, _, _)
DeleteLoop(rs, evs, uuids) ==
    IF uuids = <<>>
    THEN Returned(rs, evs)
    ELSE LET dn == SelectByUuid(rs, Head(uuids))
         IN  IF dn = {}
             THEN Raised(rs, evs, "DBConsistencyWarning")
             ELSE DeleteLoop(DeleteByUuid(rs, Head(uuids)),
                             Append(evs, record_delete(FetchOne(dn).dn)),
                             Tail(uuids))

\* (a delete that skips no uuid: every uuid listed is reported deleted, with
\* the dn of its row if it has one)
DeleteOutcomeReportsEach(rs, uuids, inr) ==
    Returned({r \in rs : r.uuid \notin Range(uuids)},
             [i \in 1..Len(uuids) |->
                 record_delete(IF SelectByUuid(rs, uuids[i]) # {}
                               THEN FetchOne(SelectByUuid(rs, uuids[i])).dn
                               ELSE "")])

\* (the loop, then the commit whatever the phase)
DeleteOutcomeAlwaysCommits(rs, uuids, inr) ==
    LET d == DeleteLoop(rs, <<>>, uuids)
    IN  IF d.err = ""
        THEN Outcome(d.rows, d.events, "", TRUE, d.rows)
        ELSE d

\* The whole method: the loop, then the commit when not in the refresh phase.
DeleteOutcome(rs, uuids, inr) ==
    LET d == DeleteLoop(rs, <<>>, uuids)
    IN  IF d.err = "" /\ ~inr
        THEN Outcome(d.rows, d.events, "", TRUE, d.rows)
        ELSE d

\* syncrepl_entry hands syncrepl_delete one uuid where it iterates a list.
\* Iterating the bytes of a uuid yields its bytes one by one, none of them a
\* stored uuid; a uuid.UUID object (what the UUID column converter returns)
\* is not iterable at all.
IterationKinds == {"bytes", "UUID"}

DeleteScalarOutcome(rs, uuid, inr, kind) ==
    IF kind = "UUID"
    THEN Raised(rs, <<>>, "TypeError")
    ELSE DeleteOutcome(rs, <<"byte">>, inr)

----------------------------------------------------------------------------
(* syncrepl_entry(dn, attrs, uuid) *)

\* (the branch for a uuid that has a row, returning after a rename without
\* storing the attributes)
EntryKnownRenameOnly(rs, dn, attrs, uuid, inr, kind) ==
    LET db_record == FetchOne(SelectByUuid(rs, uuid))
    IN  IF dn # db_record.dn /\ DnIsFree(rs, uuid, dn)
        THEN Returned(UpdateDn(rs, uuid, dn), <<record_rename(db_record.dn, dn)>>)
        ELSE Returned(UpdateAttrs(rs, uuid, attrs),
                      <<record_change(dn, db_record.attrs, attrs)>>)

\* The branch for a uuid that has a row: rename (after removing a row that
\* holds the new dn), then store the attributes.
EntryKnownOutcome(rs, dn, attrs, uuid, inr, kind) ==
    LET db_record == FetchOne(SelectByUuid(rs, uuid))
        db_dn == db_record.dn
        db_attrs == db_record.attrs
        possible_db_record == SelectByDn(rs, dn)
        d == IF dn # db_dn /\ possible_db_record # {}
             THEN DeleteScalarOutcome(rs, FetchOne(possible_db_record).uuid, inr, kind)
             ELSE Returned(rs, <<>>)
    IN  IF d.err # ""
        THEN d
        ELSE IF dn # db_dn /\ ~DnIsFree(d.rows, uuid, dn)
        THEN Outcome(d.rows, d.events, "IntegrityError", d.commit, d.saved)
        ELSE LET renamed == IF dn # db_dn THEN UpdateDn(d.rows, uuid, dn) ELSE d.rows
                 evs == IF dn # db_dn
                        THEN Append(d.events, record_rename(db_dn, dn))
                        ELSE d.events
             IN  Outcome(UpdateAttrs(renamed, uuid, attrs),
                         Append(evs, record_change(dn, db_attrs, attrs)),
                         "", d.commit, d.saved)

\* The branch for a new uuid: a row holding the dn leads to the call of the
\* unbound name syncrepl_delete (no "self."), a NameError; else INSERT.
EntryNewOutcome(rs, dn, attrs, uuid) ==
    IF SelectByDn(rs, dn) # {}
    THEN Raised(rs, <<>>, "NameError")
    ELSE IF ~InsertAllowed(rs, uuid, dn)
    THEN Raised(rs, <<>>, "IntegrityError")
    ELSE Returned(Insert(rs, uuid, dn, attrs), <<record_add(dn, attrs)>>)

\* (syncrepl_entry without the look-up of the dn, on a store that does not
\* keep dn unique: the dictionaries of the first revision)
EntryOutcomeUnchecked(rs, dn, attrs, uuid, inr, kind) ==
    IF SelectByUuid(rs, uuid) # {}
    THEN LET db_record == FetchOne(SelectByUuid(rs, uuid))
             evs == IF dn # db_record.dn
                    THEN <<record_rename(db_record.dn, dn)>>
                    ELSE <<>>
         IN  Returned(UpdateAttrs(UpdateDn(rs, uuid, dn), uuid, attrs),
                      Append(evs, record_change(dn, db_record.attrs, attrs)))
    ELSE Returned(Insert(rs, uuid, dn, attrs), <<record_add(dn, attrs)>>)

EntryOutcome(rs, dn, attrs, uuid, inr, kind) ==
    IF SelectByUuid(rs, uuid) # {}
    THEN EntryKnownOutcome(rs, dn, attrs, uuid, inr, kind)
    ELSE EntryNewOutcome(rs, dn, attrs, uuid)

----------------------------------------------------------------------------
(* syncrepl_present(uuids, refreshDeletes) *)

\* (an assignment where the list is to be extended)
ExtendByAssignment(present, uuids) == Range(uuids)

\* self.__present_uuids.extend(uuids)
Extend(present, uuids) == present \cup Range(uuids)

\* The uuids of the table that the loop finds missing from the present list.
AbsentUuids(rs, present) == {r.uuid : r \in rs} \ present

\* uuids is None, refreshDeletes is False: the loop appends to deleted_uuids
\* and the test after it reads len(deleted_uuids), but the method never binds
\* that name, so the first of the two that runs raises NameError: the append
\* when a uuid is absent, the len() when none is.
AlmostDoneOutcome(rs, present) == Raised(rs, <<>>, "NameError")

\* (the uuids-is-None branch taken whatever refreshDeletes is, with
\* deleted_uuids bound to an empty list first)
RECURSIVE SetToSeq(_)
SetToSeq(S) ==
    IF S = {} THEN <<>>
    ELSE LET x == CHOOSE y \in S : TRUE IN <<x>> \o SetToSeq(S \ {x})

PresentOutcomeIgnoringFlag(rs, present, uuids, uuids_none, refreshDeletes, inr) ==
    IF ~uuids_none /\ ~refreshDeletes
    THEN [out |-> Returned(rs, <<>>), present |-> Extend(present, uuids)]
    ELSE IF uuids_none
    THEN [out |-> DeleteOutcome(rs, SetToSeq(AbsentUuids(rs, present)), inr),
          present |-> present]
    ELSE [out |-> DeleteOutcome(rs, uuids, inr), present |-> present]

PresentOutcome(rs, present, uuids, uuids_none, refreshDeletes, inr) ==
    IF ~uuids_none /\ ~refreshDeletes
    THEN [out |-> Returned(rs, <<>>), present |-> Extend(present, uuids)]
    ELSE IF uuids_none /\ ~refreshDeletes
    THEN [out |-> AlmostDoneOutcome(rs, present), present |-> present]
    ELSE IF ~uuids_none /\ refreshDeletes
    THEN [out |-> DeleteOutcome(rs, uuids, inr), present |-> present]
    ELSE [out |-> Returned(rs, <<>>), present |-> present]

----------------------------------------------------------------------------
(* The session *)

Call(op, dn, attrs, uuid, uuids, uuids_none, refreshDeletes, ck) ==
    [op |-> op, dn |-> dn, attrs |-> attrs, uuid |-> uuid, uuids |-> uuids,
     uuids_none |-> uuids_none, refreshDeletes |-> refreshDeletes, cookie |-> ck]

\* After Syncrepl.__init__(data_path, callback, mode, ldap_url=InitialUrl)
\* on a new data file, in either mode.
Init ==
    /\ rows = {}
    /\ cookie = NoValue
    /\ disk = Commit({}, NoValue)
    /\ in_refresh = TRUE
    /\ present_uuids = {}
    /\ has_present_uuids = TRUE
    /\ call = Call("__init__", "", "", "", <<>>, FALSE, FALSE, NoValue)
    /\ events = <<bind_complete>>
    /\ err = ""
    /\ mode \in SyncreplMode
    /\ please_stop_value = FALSE
    /\ please_stop_lock = FALSE
    /\ cancel_sent = FALSE
    /\ transport = NoValue
    /\ poll_output = NoValue
    /\ deleted = FALSE
    /\ ldap_url = UrlArg("LDAPUrl", InitialUrl)
    /\ disk_url = UrlStr(InitialUrl)
    /\ schema = CurrentSchema
    /\ disk_schema = CurrentSchema
    /\ previous = NoPrevious

\* Apply a handler's outcome to the connection and the data file.
Apply(o) ==
    /\ rows' = o.rows
    /\ events' = o.events
    /\ err' = o.err
    /\ disk' = IF o.commit THEN Commit(o.saved, cookie) ELSE disk

\* The search is still running: syncrepl_poll has neither been told that the
\* search was cancelled nor returned False for its end.
SearchRunning == transport \notin {CANCELLED, SearchDone}

\* syncrepl_poll can call a handler: the instance is bound and the search
\* is running.
Delivering == ~deleted /\ SearchRunning

syncrepl_entry(dn, attrs, uuid) ==
    \E kind \in IterationKinds :
        /\ Delivering
        /\ Apply(EntryOutcome(rows, dn, attrs, uuid, in_refresh, kind))
        /\ call' = Call("syncrepl_entry", dn, attrs, uuid, <<>>, FALSE, FALSE, "")
        /\ UNCHANGED <<cookie, in_refresh, present_uuids, has_present_uuids>>
        /\ UNCHANGED session
        /\ UNCHANGED store

syncrepl_delete(uuids) ==
    /\ Delivering
    /\ Apply(DeleteOutcome(rows, uuids, in_refresh))
    /\ call' = Call("syncrepl_delete", "", "", "", uuids, FALSE, FALSE, "")
    /\ UNCHANGED <<cookie, in_refresh, present_uuids, has_present_uuids>>
    /\ UNCHANGED session
    /\ UNCHANGED store

\* Called in the refresh phase only, while self.__present_uuids exists.
syncrepl_present(uuids, uuids_none, refreshDeletes) ==
    /\ Delivering
    /\ in_refresh
    /\ has_present_uuids
    /\ uuids_none => uuids = <<>>
    /\ LET p == PresentOutcome(rows, present_uuids, uuids, uuids_none,
                               refreshDeletes, in_refresh)
       IN  /\ Apply(p.out)
           /\ present_uuids' = p.present
    /\ call' = Call("syncrepl_present", "", "", "", uuids, uuids_none, refreshDeletes, "")
    /\ UNCHANGED <<cookie, in_refresh, has_present_uuids>>
    /\ UNCHANGED session
    /\ UNCHANGED store

syncrepl_set_cookie(c) ==
    /\ Delivering
    /\ events' = <<cookie_change(c)>>
    /\ cookie' = c
    /\ err' = ""
    /\ call' = Call("syncrepl_set_cookie", "", "", "", <<>>, FALSE, FALSE, c)
    /\ UNCHANGED <<rows, disk, in_refresh, present_uuids, has_present_uuids>>
    /\ UNCHANGED session
    /\ UNCHANGED store

\* (the body of syncrepl_refreshdone with a commit of the cookie alone)
RefreshDoneCommitsCookieOnly ==
    /\ events' = <<refresh_done>>
    /\ in_refresh' = FALSE
    /\ disk' = Commit(disk.rows, cookie)
    /\ present_uuids' = {}
    /\ has_present_uuids' = FALSE
    /\ UNCHANGED <<rows, cookie>>

\* (the body of syncrepl_refreshdone without the del of the present list)
RefreshDoneKeepsPresent ==
    /\ events' = <<refresh_done>>
    /\ in_refresh' = FALSE
    /\ disk' = Commit(rows, cookie)
    /\ UNCHANGED <<present_uuids, has_present_uuids>>
    /\ UNCHANGED <<rows, cookie>>

\* (the body of syncrepl_refreshdone without its commit)
RefreshDoneNoCommit ==
    /\ events' = <<refresh_done>>
    /\ in_refresh' = FALSE
    /\ disk' = disk
    /\ present_uuids' = {}
    /\ has_present_uuids' = FALSE
    /\ UNCHANGED <<rows, cookie>>

\* The body of syncrepl_refreshdone: the refresh_done callback, then the
\* flag, the commit and the del.
RefreshDone ==
    /\ events' = <<refresh_done>>
    /\ in_refresh' = FALSE
    /\ disk' = Commit(rows, cookie)
    /\ present_uuids' = {}
    /\ has_present_uuids' = FALSE
    /\ UNCHANGED <<rows, cookie>>

\* syncrepl_poll calls it for a message with refreshDone set, which a server
\* sends to end the refresh phase of a refreshAndPersist search.
syncrepl_refreshdone ==
    /\ Delivering
    /\ mode = REFRESH_AND_PERSIST
    /\ in_refresh
    /\ has_present_uuids
    /\ RefreshDone
    /\ err' = ""
    /\ call' = Call("syncrepl_refreshdone", "", "", "", <<>>, FALSE, FALSE, "")
    /\ UNCHANGED session
    /\ UNCHANGED store

\* please_stop acquires the lock (and waits while it is held), sets the flag
\* and releases the lock.
please_stop ==
    /\ ~deleted
    /\ ~please_stop_lock
    /\ please_stop_value' = TRUE
    /\ events' = <<>>
    /\ err' = ""
    /\ call' = Call("please_stop", "", "", "", <<>>, FALSE, FALSE, "")
    /\ UNCHANGED <<rows, cookie, disk, in_refresh, present_uuids, has_present_uuids>>
    /\ UNCHANGED <<mode, cancel_sent, transport, poll_output, deleted, please_stop_lock>>
    /\ UNCHANGED store

\* What one poll call did: the value it returned or the exception it
\* raised, whether it called syncrepl_refreshdone, whether it sent a Cancel.
PollResult(output, e, refreshdone, cancels) ==
    [output |-> output, err |-> e, refreshdone |-> refreshdone, cancel |-> cancels]

\* (poll with poll_output defaulting to False: a timeout looks like the end
\* of the search)
PollOutcomeDefaultFalse(ending, stop, inr) ==
    IF ending = CANCELLED
    THEN IF stop = FALSE
         THEN PollResult(NoValue, "CANCELLED", FALSE, FALSE)
         ELSE PollResult("False", "", FALSE, FALSE)
    ELSE PollResult("False", "", inr, FALSE)

\* (poll returning False on ldap.CANCELLED without reading the stop flag)
PollOutcomeCancelledIsNormal(ending, stop, inr) ==
    IF ending = CANCELLED
    THEN PollResult("False", "", FALSE, FALSE)
    ELSE IF ending = SearchDone
    THEN PollResult("False", "", inr, FALSE)
    ELSE PollResult("True", "", FALSE, stop)

\* (poll without its stop check: no Cancel is ever sent)
PollOutcomeNeverCancels(ending, stop, inr) ==
    IF ending = CANCELLED
    THEN IF stop = FALSE
         THEN PollResult(NoValue, "CANCELLED", FALSE, FALSE)
         ELSE PollResult("False", "", FALSE, FALSE)
    ELSE IF ending = SearchDone
    THEN PollResult("False", "", inr, FALSE)
    ELSE PollResult("True", "", FALSE, FALSE)

\* (poll returning False by itself once the stop flag is set in the persist
\* phase, as loop() of the first revision returned)
PollOutcomeStopEndsPoll(ending, stop, inr) ==
    IF ending = CANCELLED
    THEN IF stop = FALSE
         THEN PollResult(NoValue, "CANCELLED", FALSE, FALSE)
         ELSE PollResult("False", "", FALSE, FALSE)
    ELSE IF ending = SearchDone
    THEN PollResult("False", "", inr, FALSE)
    ELSE IF stop /\ ~inr
    THEN PollResult("False", "", FALSE, FALSE)
    ELSE PollResult("True", "", FALSE, FALSE)

\* (poll sending a Cancel after every timeout, whatever the stop flag)
PollOutcomeAlwaysCancels(ending, stop, inr) ==
    IF ending = CANCELLED
    THEN IF stop = FALSE
         THEN PollResult(NoValue, "CANCELLED", FALSE, FALSE)
         ELSE PollResult("False", "", FALSE, FALSE)
    ELSE IF ending = SearchDone
    THEN PollResult("False", "", inr, FALSE)
    ELSE PollResult("True", "", FALSE, TRUE)

\* What poll does after syncrepl_poll ended with the given ending, given
\* self.__please_stop and self.__in_refresh.
PollOutcome(ending, stop, inr) ==
    IF ending = CANCELLED
    THEN IF stop = FALSE
         THEN PollResult(NoValue, "CANCELLED", FALSE, FALSE)
         ELSE PollResult("False", "", FALSE, FALSE)
    ELSE IF ending = SearchDone
    THEN PollResult("False", "", inr, FALSE)
    ELSE PollResult("True", "", FALSE, stop)

\* The end of one poll call; the handlers syncrepl_poll called before it
\* ended are the steps before this one.  Only a refreshOnly search ends with
\* a search result; ldap.CANCELLED arrives when the server has cancelled the
\* search, at this client's request or not.  Unless the search ended, poll
\* acquires the lock to read the stop flag (and waits while it is held); it
\* releases the lock after the read and after self.cancel returned.  A
\* self.cancel that raises (cancel_ok is FALSE: the connection to the server
\* is lost) leaves poll with the lock held.
poll_cancel(ending, cancel_ok) ==
    /\ ~deleted
    /\ SearchRunning
    /\ ending = SearchDone => mode = REFRESH_ONLY
    /\ ending # SearchDone => ~please_stop_lock
    /\ LET o == PollOutcome(ending, please_stop_value, in_refresh)
           failed == o.cancel /\ ~cancel_ok
       IN  /\ poll_output' = IF failed THEN NoValue ELSE o.output
           /\ err' = IF failed THEN "SERVER_DOWN" ELSE o.err
           /\ cancel_sent' = (cancel_sent \/ (o.cancel /\ ~failed))
           /\ please_stop_lock' = (please_stop_lock \/ failed)
           /\ IF o.refreshdone
              THEN RefreshDone
              ELSE /\ events' = IF o.cancel /\ ~failed THEN <<cancel>> ELSE <<>>
                   /\ UNCHANGED <<rows, cookie, disk, in_refresh, present_uuids,
                                  has_present_uuids>>
    /\ transport' = ending
    /\ call' = Call("poll", "", "", "", <<>>, FALSE, FALSE, "")
    /\ UNCHANGED <<mode, please_stop_value, deleted>>
    /\ UNCHANGED store

\* poll with a connection that takes the Cancel.
poll(ending) == poll_cancel(ending, TRUE)

\* unbind deletes the DBInterface, whose __del__ runs PRAGMA optimize on the
\* connection; the connection is then dropped, and with it the transaction
\* that was open, unless the PRAGMA committed it.
unbind ==
    /\ ~deleted
    /\ \E implicit \in ImplicitCommits :
           disk' = IF implicit THEN Commit(rows, cookie) ELSE disk
    /\ deleted' = TRUE
    /\ events' = <<>>
    /\ err' = ""
    /\ call' = Call("unbind", "", "", "", <<>>, FALSE, FALSE, "")
    /\ UNCHANGED <<rows, cookie, in_refresh, present_uuids, has_present_uuids>>
    /\ UNCHANGED <<mode, please_stop_value, cancel_sent, transport, poll_output,
                   please_stop_lock>>
    /\ UNCHANGED store

\* What a new connection to the data file sees: what was committed.
\* (ConnectStale: the connection sees what the connection before it saw.)
ConnectStale(d) == [rows |-> rows, cookie |-> cookie]

Connect(d) == [rows |-> d.rows, cookie |-> d.cookie]

\* syncrepl_get_cookie: the setting as the connection sees it.
syncrepl_get_cookie(connection) == connection.cookie

\* The test Syncrepl.__init__ makes before raising LDAPUrlConflict.
\* (UrlConflictIgnoringFilter: the test without the comparison of filterstr.)
UrlConflictIgnoringFilter(current_url, new_url) ==
    \/ current_url.dn # new_url.dn
    \/ current_url.attrs # new_url.attrs
    \/ current_url.scope # new_url.scope

UrlConflict(current_url, new_url) ==
    \/ current_url.dn # new_url.dn
    \/ current_url.attrs # new_url.attrs
    \/ current_url.scope # new_url.scope
    \/ current_url.filterstr # new_url.filterstr

\* How Syncrepl.__init__ ends, and the text it has written to setting
\* syncrepl_url by then (url: the stored one, if it wrote none).
InitResult(e, url) == [err |-> e, url |-> url]

\* From the bind on: a bind the server refuses or never answers raises, with
\* the setting written but not committed; after the bind __init__ commits.
InitBind(bind_ok, url) ==
    IF bind_ok THEN InitResult("", url) ELSE InitResult("SERVER_DOWN", url)

\* Syncrepl.__init__ up to the bind, on a store whose setting syncrepl_url is
\* db_text.  exceptions.LDAPURLParseError is no name of the exceptions module
\* (which has LDAPUrlParseError), and None has no attribute to compare with
\* the stored URL: both end in AttributeError.  The store is taken to have
\* been written by the running versions of the package and of Python.
InitOutcome(db_text, arg, bind_ok) ==
    LET new_url == IF arg.kind = "str" THEN ParseUrl(UrlStr(arg.url)) ELSE arg.url
    IN  IF arg.kind = "unparsable"
        THEN InitResult("AttributeError", db_text)
        ELSE IF db_text = NoUrl
        THEN IF arg.kind = "None"
             THEN InitResult("LDAPUrlError", db_text)
             ELSE InitBind(bind_ok, UrlStr(new_url))
        ELSE IF arg.kind = "None"
        THEN InitResult("AttributeError", db_text)
        ELSE IF new_url # ParseUrl(db_text)
        THEN IF UrlConflict(ParseUrl(db_text), new_url)
             THEN InitResult("LDAPUrlConflict", db_text)
             ELSE InitBind(bind_ok, UrlStr(new_url))
        ELSE InitBind(bind_ok, db_text)

\* The attributes Syncrepl.__init__ sets first.
\* (NewInstanceKeepsPresent: the list of present uuids is the one of the
\* session before.)
NewInstanceKeepsPresent ==
    /\ in_refresh' = TRUE
    /\ UNCHANGED <<present_uuids, has_present_uuids>>
    /\ please_stop_value' = FALSE
    /\ please_stop_lock' = FALSE

NewInstance ==
    /\ in_refresh' = TRUE
    /\ present_uuids' = {}
    /\ has_present_uuids' = TRUE
    /\ please_stop_value' = FALSE
    /\ please_stop_lock' = FALSE

\* Syncrepl.__init__(data_path, callback, mode, ldap_url) on the data file as
\* the session before left it: unbound, or open when its process died (what
\* it had not committed is then lost with its connection).  An __init__ that
\* raises leaves no instance: the half-made one is unbound by __del__, whose
\* PRAGMA may commit the setting that was written.
Syncrepl_init(arg, m, bind_ok) ==
    LET o == InitOutcome(disk_url, arg, bind_ok)
        connection == Connect(disk)
    IN  /\ rows' = connection.rows
        /\ cookie' = connection.cookie
        /\ NewInstance
        /\ previous' = Previous(deleted, in_refresh, present_uuids)
        /\ cancel_sent' = FALSE
        /\ transport' = NoValue
        /\ poll_output' = NoValue
        /\ mode' = m
        /\ ldap_url' = arg
        /\ err' = o.err
        /\ deleted' = (o.err # "")
        /\ events' = IF o.err = "" THEN <<bind_complete>> ELSE <<>>
        /\ \E implicit \in ImplicitCommits :
               disk_url' = IF o.err = "" \/ implicit THEN o.url ELSE disk_url
        /\ call' = Call("__init__", "", "", "", <<>>, FALSE, FALSE,
                        IF o.err = "" THEN syncrepl_get_cookie(connection) ELSE "")
        /\ UNCHANGED <<disk, schema, disk_schema>>

\* The methods unbind replaces by throw_closederror, and the transport's
\* handlers among them.
Patched ==
    {"please_stop", "poll", "syncrepl_get_cookie", "syncrepl_set_cookie",
     "syncrepl_refreshdone", "syncrepl_delete", "syncrepl_present",
     "syncrepl_entry"}

\* The public methods unbind leaves in place.
Unpatched == {"run", "db", "unbind"}

\* There is an instance and it was unbound: the last call was unbind or a
\* call on the unbound instance.
Unbound == deleted /\ call.op \in ({"unbind"} \cup Patched \cup Unpatched)

\* What a method raises on an unbound instance: a patched method is
\* throw_closederror; run calls self.poll, which is; db and unbind read
\* self.__db, which unbind deleted.
ClosedOutcome(op) ==
    IF op \in Patched THEN "ClosedError"
    ELSE IF op = "run" THEN "ClosedError"
    ELSE "AttributeError"

\* A call of a public method or of a handler on an unbound instance.
closed(op) ==
    /\ Unbound
    /\ err' = ClosedOutcome(op)
    /\ events' = <<>>
    /\ call' = Call(op, "", "", "", <<>>, FALSE, FALSE, "")
    /\ UNCHANGED <<rows, cookie, disk, in_refresh, present_uuids, has_present_uuids>>
    /\ UNCHANGED session
    /\ UNCHANGED store

----------------------------------------------------------------------------
(* The schema methods of DBInterface, as db.py has them *)

\* How a schema method ends: the exception, what its connection sees and what
\* the data file holds.
SchemaResult(e, connection, file) == [err |-> e, schema |-> connection, file |-> file]

\* The tables there are once the three CREATE TABLE statements of
\* _upgrade_schema ran, in their order, up to the first that names a table
\* that is there already.
CreateTables(tables) ==
    IF "syncrepl_schema" \in tables THEN tables
    ELSE IF "syncrepl_records" \in tables THEN tables \cup {"syncrepl_schema"}
    ELSE IF "syncrepl_settings" \in tables
    THEN tables \cup {"syncrepl_schema", "syncrepl_records"}
    ELSE tables \cup SchemaTables

\* _upgrade_schema(old_version) on a connection that sees the schema
\* connection, of a data file that holds the schema file.  A CREATE TABLE is
\* durable at once unless a transaction is open (one that sqlite3 commits
\* first where it commits implicitly); the INSERT opens a transaction;
\* c.commit() is called on a cursor, which has no commit, so that the
\* recursion of the line after it is never made.
UpgradeOutcome(connection, file, old_version, implicit) ==
    IF old_version = CURRENT_SCHEMA_VERSION
    THEN SchemaResult("", connection, file)
    ELSE IF old_version = 0
    THEN LET committed == IF implicit THEN connection ELSE file
             created == Schema(CreateTables(connection.tables), connection.versions)
             durable == IF committed = connection THEN created ELSE committed
         IN  IF connection.tables \cap SchemaTables # {}
             THEN SchemaResult("OperationalError", created, durable)
             ELSE IF 1 \in connection.versions
             THEN SchemaResult("IntegrityError", created, durable)
             ELSE SchemaResult("AttributeError",
                               Schema(created.tables, created.versions \cup {1}),
                               durable)
    ELSE SchemaResult("", connection, file)

\* 'syncrepl_schema' == row, for a row that fetchall returned: a str is
\* never equal to a tuple.
StrEqualsRow(name, row) == FALSE

\* name in rows
StrInRows(name, fetched) == \E row \in fetched : StrEqualsRow(name, row)

\* (CheckAndUpgradeUnchecked: the table is looked for by its name, and no
\* version is too new.)
CheckAndUpgradeUnchecked(connection, file, implicit) ==
    LET discovered_tables == {<<name>> : name \in connection.tables \cap SchemaTables}
    IN  IF discovered_tables = {}
        THEN UpgradeOutcome(connection, file, 0, implicit)
        ELSE IF <<"syncrepl_schema">> \notin discovered_tables
        THEN SchemaResult("OSError", connection, file)
        ELSE IF Cardinality(connection.versions) # 1
        THEN SchemaResult("OSError", connection, file)
        ELSE LET schema_version == CHOOSE v \in connection.versions : TRUE
             IN  IF schema_version < CURRENT_SCHEMA_VERSION
                 THEN LET o == UpgradeOutcome(connection, file, schema_version, implicit)
                      IN  SchemaResult(o.err, o.schema, o.file)
                 ELSE SchemaResult("", connection, file)

\* _check_and_upgrade_schema, with "is not in" read as "not in" and
\* _validate_schema as a method that does nothing.  fetchall returns the
\* table names as rows of one column.
CheckAndUpgradeOutcome(connection, file, implicit) ==
    LET discovered_tables == {<<name>> : name \in connection.tables \cap SchemaTables}
    IN  IF discovered_tables = {}
        THEN UpgradeOutcome(connection, file, 0, implicit)
        ELSE IF ~StrInRows("syncrepl_schema", discovered_tables)
        THEN SchemaResult("OSError", connection, file)
        ELSE IF Cardinality(connection.versions) # 1
        THEN SchemaResult("OSError", connection, file)
        ELSE LET schema_version == CHOOSE v \in connection.versions : TRUE
             IN  IF schema_version > CURRENT_SCHEMA_VERSION
                 THEN SchemaResult("OSError", connection, file)
                 ELSE IF schema_version < CURRENT_SCHEMA_VERSION
                 THEN LET o == UpgradeOutcome(connection, file, schema_version, implicit)
                      IN  SchemaResult(o.err, o.schema, o.file)
                 ELSE SchemaResult("", connection, file)

\* A call of a schema method, with the version it was given.
SchemaCall(op, old_version) ==
    Call(op, "", "", ToString(old_version), <<>>, FALSE, FALSE, "")

\* What the schema methods leave alone.
SchemaFrame ==
    /\ events' = <<>>
    /\ UNCHANGED <<rows, cookie, disk, in_refresh, present_uuids, has_present_uuids>>
    /\ UNCHANGED session
    /\ UNCHANGED <<ldap_url, disk_url, previous>>

\* DBInterface(data_path): connects, and raises at register_adapter, which
\* is a function of the module sqlite3 and no attribute of a connection.
\* The check of the schema and the VACUUM after it are never reached.
DBInterface_init ==
    /\ schema' = disk_schema
    /\ err' = "AttributeError"
    /\ call' = SchemaCall("DBInterface", 0)
    /\ UNCHANGED disk_schema
    /\ SchemaFrame

\* _check_and_upgrade_schema() on an open connection.
check_and_upgrade_schema ==
    \E implicit \in ImplicitCommits :
        LET o == CheckAndUpgradeOutcome(schema, disk_schema, implicit)
        IN  /\ schema' = o.schema
            /\ disk_schema' = o.file
            /\ err' = o.err
            /\ call' = SchemaCall("_check_and_upgrade_schema", 0)
            /\ SchemaFrame

\* _upgrade_schema(old_version) on an open connection.
upgrade_schema(old_version) ==
    \E implicit \in ImplicitCommits :
        LET o == UpgradeOutcome(schema, disk_schema, old_version, implicit)
        IN  /\ schema' = o.schema
            /\ disk_schema' = o.file
            /\ err' = o.err
            /\ call' = SchemaCall("_upgrade_schema", old_version)
            /\ SchemaFrame

\* DBInterface.__del__: PRAGMA optimize, and the connection is dropped with
\* the transaction that was open, unless the PRAGMA committed it.  The next
\* connection sees the data file.
DBInterface_del ==
    /\ \E implicit \in ImplicitCommits :
           disk_schema' = IF implicit THEN schema ELSE disk_schema
    /\ schema' = disk_schema'
    /\ err' = ""
    /\ call' = SchemaCall("__del__", 0)
    /\ SchemaFrame

----------------------------------------------------------------------------
(* The specifications *)

\* The handlers, with every input the server can send.
Next ==
    \/ \E dn \in DNs, attrs \in AttrSets, uuid \in UUIDs : syncrepl_entry(dn, attrs, uuid)
    \/ \E uuids \in UuidLists : syncrepl_delete(uuids)
    \/ \E uuids \in UuidLists, uuids_none \in BOOLEAN, refreshDeletes \in BOOLEAN :
           syncrepl_present(uuids, uuids_none, refreshDeletes)
    \/ \E c \in Cookies : syncrepl_set_cookie(c)
    \/ syncrepl_refreshdone

Spec == Init /\ [][Next]_vars

\* The messages of a session about one entry: one uuid, one attribute
\* dictionary, lists of at most one uuid.
SessionUUIDs == {"U1"}
SessionAttrSets == {"attrs1"}
SessionUuidLists == {<<>>} \cup {<<uuid>> : uuid \in SessionUUIDs}

\* A whole session: the application calls poll, please_stop (from any
\* thread) and unbind, and syncrepl_poll calls the handlers.
SessionNext ==
    \/ \E dn \in DNs, attrs \in SessionAttrSets, uuid \in SessionUUIDs :
           syncrepl_entry(dn, attrs, uuid)
    \/ \E uuids \in SessionUuidLists : syncrepl_delete(uuids)
    \/ \E uuids \in SessionUuidLists, uuids_none \in BOOLEAN, refreshDeletes \in BOOLEAN :
           syncrepl_present(uuids, uuids_none, refreshDeletes)
    \/ \E c \in Cookies : syncrepl_set_cookie(c)
    \/ syncrepl_refreshdone
    \/ please_stop
    \/ \E ending \in PollEndings : poll(ending)
    \/ unbind

SessionSpec == Init /\ [][SessionNext]_vars

\* A session whose application follows the steps please_stop documents: it
\* calls poll until poll returns False (or raises for a cancelled search),
\* and only then unbind.
PatientNext ==
    \/ \E dn \in DNs, attrs \in SessionAttrSets, uuid \in SessionUUIDs :
           syncrepl_entry(dn, attrs, uuid)
    \/ \E uuids \in SessionUuidLists : syncrepl_delete(uuids)
    \/ \E uuids \in SessionUuidLists, uuids_none \in BOOLEAN, refreshDeletes \in BOOLEAN :
           syncrepl_present(uuids, uuids_none, refreshDeletes)
    \/ \E c \in Cookies : syncrepl_set_cookie(c)
    \/ syncrepl_refreshdone
    \/ please_stop
    \/ \E ending \in PollEndings : poll(ending)
    \/ ~SearchRunning /\ unbind

\* The server confirms a Cancel this client sent.
CancelConfirmed == cancel_sent /\ poll(CANCELLED)

\* The application keeps calling poll, so that syncrepl_poll times out again
\* whenever the server goes idle (after 3 seconds), and the server answers a
\* Cancel it received.
FairSessionSpec ==
    /\ Init
    /\ [][PatientNext]_vars
    /\ WF_vars(poll(TIMEOUT))
    /\ WF_vars(CancelConfirmed)

\* A session whose connection to the server may be lost when poll sends the
\* Cancel.
LockNext ==
    \/ \E dn \in DNs, attrs \in SessionAttrSets, uuid \in SessionUUIDs :
           syncrepl_entry(dn, attrs, uuid)
    \/ \E uuids \in SessionUuidLists : syncrepl_delete(uuids)
    \/ \E uuids \in SessionUuidLists, uuids_none \in BOOLEAN, refreshDeletes \in BOOLEAN :
           syncrepl_present(uuids, uuids_none, refreshDeletes)
    \/ \E c \in Cookies : syncrepl_set_cookie(c)
    \/ syncrepl_refreshdone
    \/ please_stop
    \/ \E ending \in PollEndings, cancel_ok \in BOOLEAN : poll_cancel(ending, cancel_ok)
    \/ unbind

LockSpec == Init /\ [][LockNext]_vars

\* Sessions one after the other on one data file, each with the URL of the
\* first: a session is constructed once the one before was unbound or its
\* process died.
StoreNext ==
    \/ \E dn \in DNs, attrs \in SessionAttrSets, uuid \in SessionUUIDs :
           syncrepl_entry(dn, attrs, uuid)
    \/ \E uuids \in SessionUuidLists : syncrepl_delete(uuids)
    \/ \E uuids \in SessionUuidLists, uuids_none \in BOOLEAN, refreshDeletes \in BOOLEAN :
           syncrepl_present(uuids, uuids_none, refreshDeletes)
    \/ \E c \in Cookies : syncrepl_set_cookie(c)
    \/ syncrepl_refreshdone
    \/ \E ending \in PollEndings : poll(ending)
    \/ unbind
    \/ \E m \in SyncreplMode, bind_ok \in BOOLEAN :
           Syncrepl_init(UrlArg("LDAPUrl", InitialUrl), m, bind_ok)

StoreSpec == Init /\ [][StoreNext]_vars

\* A session, and the calls made on its instance after unbind.
ClosedNext ==
    \/ SessionNext
    \/ \E op \in Patched \cup Unpatched : closed(op)

ClosedSpec == Init /\ [][ClosedNext]_vars

\* No session: the variables of an instance, when there is none yet.
NoInstance ==
    /\ rows = {}
    /\ cookie = NoValue
    /\ disk = Commit({}, NoValue)
    /\ in_refresh = TRUE
    /\ present_uuids = {}
    /\ has_present_uuids = TRUE
    /\ call = Call("", "", "", "", <<>>, FALSE, FALSE, "")
    /\ events = <<>>
    /\ err = ""
    /\ mode = REFRESH_ONLY
    /\ please_stop_value = FALSE
    /\ please_stop_lock = FALSE
    /\ cancel_sent = FALSE
    /\ transport = NoValue
    /\ poll_output = NoValue
    /\ deleted = TRUE
    /\ ldap_url = UrlArg("None", InitialUrl)
    /\ disk_url = NoUrl
    /\ previous = NoPrevious

\* A data file that holds the tables and nothing else, and no session.
NoSession ==
    /\ NoInstance
    /\ schema = CurrentSchema
    /\ disk_schema = CurrentSchema

\* The values of the ldap_url argument.
UrlArgs ==
    {UrlArg(kind, u) : kind \in {"LDAPUrl", "str"}, u \in LDAPUrl}
        \cup {UrlArg("unparsable", InitialUrl), UrlArg("None", InitialUrl)}

\* Sessions one after the other on one data file, constructed with any URL
\* (and in one mode, as the mode has no part in what __init__ does to the URL).
UrlNext ==
    \/ \E arg \in UrlArgs, bind_ok \in BOOLEAN :
           Syncrepl_init(arg, REFRESH_ONLY, bind_ok)
    \/ unbind

UrlSpec == NoSession /\ [][UrlNext]_vars

\* The data files a DBInterface may be given: any of the tables, and any
\* versions in the rows of syncrepl_schema if that table is there.
DataFiles ==
    {Schema(tables, versions) :
        tables \in SUBSET SchemaTables, versions \in SUBSET (0..MaxSchemaVersion)}
        \ {f \in [tables : SUBSET SchemaTables, versions : SUBSET (0..MaxSchemaVersion)] :
              f.versions # {} /\ "syncrepl_schema" \notin f.tables}

\* A connection to one of the data files.
SchemaInit ==
    /\ NoInstance
    /\ disk_schema \in DataFiles
    /\ schema = disk_schema

SchemaNext ==
    \/ DBInterface_init
    \/ check_and_upgrade_schema
    \/ \E old_version \in 0..MaxSchemaVersion : upgrade_schema(old_version)
    \/ DBInterface_del

SchemaSpec == SchemaInit /\ [][SchemaNext]_vars

----------------------------------------------------------------------------
(* The claims *)

\* The rows a handler call removed from the table.
Removed == rows \ rows'

\* The callbacks of kind k among a sequence of callbacks.
OfKind(evs, k) == {i \in 1..Len(evs) : evs[i].kind = k}

\* One record_delete per dn of the set, and no other callback.
DeletesExactly(evs, dns) ==
    /\ Len(evs) = Cardinality(dns)
    /\ {evs[i] : i \in 1..Len(evs)} = {record_delete(dn) : dn \in dns}

IsEntryCall(c) == c.op = "syncrepl_entry"
IsDeleteCall(c) == c.op = "syncrepl_delete"
IsPresentCall(c, none, deletes) ==
    c.op = "syncrepl_present" /\ c.uuids_none = none /\ c.refreshDeletes = deletes

\* C1: in every state, whatever syncrepl_entry, syncrepl_present and
\* syncrepl_delete calls led to it, no two rows of the table share a dn, and
\* the look-up of a row's dn gives that row's own uuid.
C1_UniqueNames ==
    \A r1 \in rows :
        /\ \A r2 \in rows : r1.dn = r2.dn => r1 = r2
        /\ FetchOne(SelectByDn(rows, r1.dn)).uuid = r1.uuid

\* C1's case: an entry arrived for a dn that a row of another uuid holds.
C1_Witness ==
    /\ IsEntryCall(call)
    /\ Cardinality(rows) = 2
    /\ \E r \in rows : r.dn = call.dn /\ r.uuid # call.uuid

\* C2 (as claimed): an entry for a uuid without a row, whose dn a row of
\* another uuid holds, deletes that row with record_delete(dn), then inserts
\* the new row with record_add; the one row with that dn is the new uuid's.
C2_CollisionOnAdd ==
    [][(/\ IsEntryCall(call')
        /\ SelectByUuid(rows, call'.uuid) = {}
        /\ SelectByDn(rows, call'.dn) # {})
       => (/\ events' = <<record_delete(call'.dn),
                          record_add(call'.dn, call'.attrs)>>
           /\ SelectByDn(rows', call'.dn) =
                  {Row(call'.uuid, call'.dn, call'.attrs)})]_vars

\* C3 (as claimed): an entry for a uuid whose row has another dn, while a
\* row of a second uuid holds the new dn, deletes the second row and calls
\* record_delete before it renames the first and calls record_rename;
\* afterwards the second uuid has no row and the only row with the dn is the
\* first uuid's.
C3_CollisionOnRename ==
    [][(/\ IsEntryCall(call')
        /\ SelectByUuid(rows, call'.uuid) # {}
        /\ FetchOne(SelectByUuid(rows, call'.uuid)).dn # call'.dn
        /\ SelectByDn(rows, call'.dn) # {})
       => (/\ Len(events') >= 2
           /\ events'[1] = record_delete(call'.dn)
           /\ events'[2] = record_rename(FetchOne(SelectByUuid(rows, call'.uuid)).dn,
                                         call'.dn)
           /\ SelectByUuid(rows', FetchOne(SelectByDn(rows, call'.dn)).uuid) = {}
           /\ SelectByDn(rows', call'.dn) =
                  {Row(call'.uuid, call'.dn, call'.attrs)})]_vars

\* C4: an entry for a uuid whose row has another dn, while no row holds the
\* new dn, leaves exactly one row for the uuid, with the new dn; it calls
\* record_rename(old dn, new dn), no record_delete and no record_add; no row
\* with the old dn remains.
C4_RenameKeepsIdentity ==
    [][(/\ IsEntryCall(call')
        /\ SelectByUuid(rows, call'.uuid) # {}
        /\ FetchOne(SelectByUuid(rows, call'.uuid)).dn # call'.dn
        /\ SelectByDn(rows, call'.dn) = {})
       => LET old_dn == FetchOne(SelectByUuid(rows, call'.uuid)).dn
          IN  /\ SelectByUuid(rows', call'.uuid) =
                     {Row(call'.uuid, call'.dn, call'.attrs)}
              /\ SelectByDn(rows', call'.dn) =
                     {Row(call'.uuid, call'.dn, call'.attrs)}
              /\ SelectByDn(rows', old_dn) = {}
              /\ \E i \in 1..Len(events') :
                     events'[i] = record_rename(old_dn, call'.dn)
              /\ Cardinality(OfKind(events', "record_rename")) = 1
              /\ OfKind(events', "record_delete") = {}
              /\ OfKind(events', "record_add") = {}]_vars

\* C4's case: the call renamed a row.
C4_Witness ==
    /\ IsEntryCall(call)
    /\ err = ""
    /\ Len(events) = 2
    /\ events[1].kind = "record_rename"
    /\ events[1].new_dn = call.dn

\* C5 (as claimed): syncrepl_present(None, False) deletes every row whose
\* uuid is not in the present list, with one record_delete each, and keeps
\* every row whose uuid is in it unchanged.
C5_DeletionByAbsence ==
    [][IsPresentCall(call', TRUE, FALSE)
       => (/\ rows' = {r \in rows : r.uuid \in present_uuids}
           /\ DeletesExactly(events',
                  {r.dn : r \in {q \in rows : q.uuid \notin present_uuids}}))]_vars

\* C6: syncrepl_present(list, False) adds the uuids of the list to the
\* present list and changes nothing else: table, cookie, data file and
\* phase stay as they were and no callback is made.
C6_PresentListOnlyAccumulates ==
    [][IsPresentCall(call', FALSE, FALSE)
       => (/\ present_uuids' = present_uuids \cup Range(call'.uuids)
           /\ rows' = rows
           /\ cookie' = cookie
           /\ disk' = disk
           /\ in_refresh' = in_refresh
           /\ has_present_uuids' = has_present_uuids
           /\ events' = <<>>
           /\ err' = "")]_vars

\* C6's case: a list naming a uuid was reported present to a session whose
\* table has rows and whose present list held another uuid already.
C6_Witness ==
    /\ IsPresentCall(call, FALSE, FALSE)
    /\ call.uuids # <<>>
    /\ rows # {}
    /\ present_uuids \ Range(call.uuids) # {}

\* C7 (as claimed): syncrepl_present(list, True) deletes exactly the rows
\* whose uuid is in the list, with one record_delete each, and leaves the
\* other rows and the present list unchanged.
C7_DeleteListDeletesListed ==
    [][IsPresentCall(call', FALSE, TRUE)
       => (/\ rows' = {r \in rows : r.uuid \notin Range(call'.uuids)}
           /\ DeletesExactly(events',
                  {r.dn : r \in {q \in rows : q.uuid \in Range(call'.uuids)}})
           /\ present_uuids' = present_uuids)]_vars

\* C8: syncrepl_present(None, True) changes nothing, whatever the table and
\* the present list hold: no row is deleted, the present list stays, no
\* callback is made, and the call returns.
C8_RefreshCompleteNoOp ==
    [][IsPresentCall(call', TRUE, TRUE)
       => (/\ rows' = rows
           /\ present_uuids' = present_uuids
           /\ has_present_uuids' = has_present_uuids
           /\ cookie' = cookie
           /\ disk' = disk
           /\ in_refresh' = in_refresh
           /\ events' = <<>>
           /\ err' = "")]_vars

\* C8's case: the call came with an empty present list and a table with rows.
C8_Witness ==
    /\ IsPresentCall(call, TRUE, TRUE)
    /\ present_uuids = {}
    /\ rows # {}

\* C9 (as claimed): syncrepl_delete skips a uuid that has no row, without a
\* callback for it, and still deletes the rows of the other uuids of the list.
C9_UnknownUuidSkipped ==
    [][IsDeleteCall(call')
       => (/\ rows' = {r \in rows : r.uuid \notin Range(call'.uuids)}
           /\ DeletesExactly(events',
                  {r.dn : r \in {q \in rows : q.uuid \in Range(call'.uuids)}}))]_vars

EntryRepeated == IsEntryCall(call) /\ call' = call

Terminated == poll_output = "False"
Refreshing == in_refresh /\ SearchRunning
Persisting == ~in_refresh /\ SearchRunning

\* The data file holds what the open connection sees.
Durable == disk = Commit(rows, cookie)
IsCall(c, op) == c.op = op

\* C12: whenever syncrepl_entry, syncrepl_delete or syncrepl_set_cookie is
\* handled in the persist phase and returns, the data file holds, when the
\* handler has returned, the table and the cookie as the handler left them.
C12_PersistPhaseHandlersCommit ==
    [][((IsEntryCall(call') \/ IsDeleteCall(call') \/ IsCall(call', "syncrepl_set_cookie"))
            /\ Persisting /\ err' = "")
       => Durable']_vars

\* C13: the step that ends the refresh phase (syncrepl_refreshdone, called
\* for the server's refreshDone message or by poll at the end of the search)
\* changes neither the table nor the cookie, and when it has returned the
\* data file holds them as the refresh phase left them: the session is not
\* in the persist phase with something of the refresh phase uncommitted.
C13_CommitAtPhaseTransition ==
    [][(in_refresh /\ ~in_refresh')
       => (/\ IsCall(call', "syncrepl_refreshdone") \/ IsCall(call', "poll")
           /\ rows' = rows
           /\ cookie' = cookie
           /\ Durable')]_vars

\* C13's case: the refresh phase stored a row and a cookie, uncommitted
\* until syncrepl_refreshdone ran.
C13_Witness ==
    /\ IsCall(call, "syncrepl_refreshdone")
    /\ ~in_refresh
    /\ rows # {}
    /\ cookie # NoValue
    /\ disk.rows = rows
    /\ disk.cookie = cookie

\* C14: in every phase and mode, when unbind has released the connection
\* the data file holds the table and the cookie as the connection saw them
\* last: whatever was pending has been committed.
C14_CommitBeforeClose ==
    [][IsCall(call', "unbind") => Durable']_vars

\* C15: a poll made while the session is in the refresh phase sends no
\* Cancel to the server, whether or not please_stop has been called.
C15_NoCancelWhileRefreshing ==
    [][(IsCall(call', "poll") /\ Refreshing)
       => (OfKind(events', "cancel") = {} /\ cancel_sent' = cancel_sent)]_vars

\* The refresh phase of a refreshAndPersist session ends in this step, and
\* please_stop was called before.
RefreshEndsAfterStop ==
    mode = REFRESH_AND_PERSIST /\ please_stop_value /\ in_refresh /\ ~in_refresh'

C17_CooperativeCancellation ==
    /\ [][/\ (IsCall(call', "poll") /\ transport' = TIMEOUT
                  /\ Persisting /\ please_stop_value)
             => (/\ events' = <<cancel>>
                 /\ cancel_sent'
                 /\ poll_output' = "True")
          /\ (IsEntryCall(call') /\ Persisting /\ cancel_sent /\ err' = "")
             => Row(call'.uuid, call'.dn, call'.attrs) \in rows'
          /\ (IsDeleteCall(call') /\ Persisting /\ cancel_sent /\ err' = "")
             => \A i \in 1..Len(call'.uuids) :
                    SelectByUuid(rows', call'.uuids[i]) = {}]_vars
    /\ (Persisting /\ please_stop_value) ~> Terminated

\* C17's case: the Cancel was sent in the persist phase, an entry that
\* arrived afterwards was stored, and then poll returned False.
C17_Witness ==
    /\ IsCall(call, "poll")
    /\ transport = CANCELLED
    /\ ~in_refresh
    /\ cancel_sent
    /\ Terminated
    /\ rows # {}
    /\ disk.rows = {}

\* C18: a poll in which syncrepl_poll raises ldap.CANCELLED returns False
\* without an exception when please_stop was called before, and raises
\* ldap.CANCELLED when it was not; either way it makes no callback and
\* leaves the table, the cookie and the phase flag as they were.
C18_CancelledNormalIffStopRequested ==
    [][(IsCall(call', "poll") /\ transport' = CANCELLED)
       => (/\ please_stop_value => (poll_output' = "False" /\ err' = "")
           /\ ~please_stop_value => (poll_output' = NoValue /\ err' = "CANCELLED")
           /\ events' = <<>>
           /\ UNCHANGED <<rows, cookie, in_refresh, please_stop_value>>)]_vars

\* C18's case: the search was cancelled though please_stop was never called,
\* and poll raised.
C18_Witness ==
    /\ IsCall(call, "poll")
    /\ transport = CANCELLED
    /\ ~please_stop_value
    /\ err = "CANCELLED"
    /\ ~Terminated

\* C19: when a session in the persist phase was terminated by the
\* confirmation of the Cancel it asked for, and unbind has closed the data
\* file, the cookie in the data file is the cookie that was set last (the
\* one of the last message handled in full).
C19_TerminationWithoutDataLoss ==
    (deleted /\ Terminated /\ ~in_refresh /\ transport = CANCELLED /\ cancel_sent)
        => disk.cookie = cookie

C21_RefreshOnlyNeverPersists ==
    mode = REFRESH_ONLY
        => (~Persisting /\ OfKind(events, "refresh_done") = {})

\* C22: in a refreshAndPersist session the step that ends the refresh phase
\* is syncrepl_refreshdone; it makes the refresh_done callback, leaves the
\* session in the persist phase and deletes the list of present uuids.  The
\* callback is made in no step that leaves the session in the refresh
\* phase and in no step taken after the refresh phase, so once per session;
\* and the list does not exist after the refresh phase.
C22_RefreshDoneOnce ==
    [][mode = REFRESH_AND_PERSIST
       => (/\ (in_refresh /\ ~in_refresh')
                 => (/\ IsCall(call', "syncrepl_refreshdone")
                     /\ events' = <<refresh_done>>
                     /\ Refreshing
                     /\ Persisting')
           /\ (in_refresh' \/ ~in_refresh)
                 => OfKind(events', "refresh_done") = {}
           /\ ~in_refresh => ~in_refresh'
           /\ ~in_refresh' => ~has_present_uuids')]_vars

\* C22's case: the server's refreshDone arrived in a refreshAndPersist
\* session; the session is in the persist phase without the list.
C22_Witness ==
    /\ mode = REFRESH_AND_PERSIST
    /\ IsCall(call, "syncrepl_refreshdone")
    /\ events = <<refresh_done>>
    /\ Persisting
    /\ ~has_present_uuids
    /\ ~please_stop_value

\* C23: a session that was constructed starts in the refresh phase with an
\* empty list of present uuids, whatever the session before it had
\* accumulated and whether that one was unbound or lost with its process.
C23_AccumulatorStartsEmpty ==
    [][(IsCall(call', "__init__") /\ err' = "")
          => (present_uuids' = {} /\ has_present_uuids' /\ in_refresh')]_vars

\* A session constructed after one that died in its refresh phase with
\* uuids accumulated.
C23_Witness ==
    /\ IsCall(call, "__init__")
    /\ err = ""
    /\ ~previous.deleted
    /\ previous.in_refresh
    /\ previous.present_uuids # {}
    /\ present_uuids = {}
    /\ has_present_uuids
\* The data file holds one schema version, and it is newer than this
\* release supports.
TooNew(f) ==
    /\ "syncrepl_schema" \in f.tables
    /\ \E v \in f.versions : v > CURRENT_SCHEMA_VERSION /\ f.versions = {v}

\* The data file holds none of the tables.
EmptyFile(f) == f.tables \cap SchemaTables = {}

C25_OpenMigrates ==
    [][(/\ call'.op \in {"DBInterface", "_check_and_upgrade_schema"}
        /\ EmptyFile(disk_schema)
        /\ schema = disk_schema)
          => (err' = "" /\ disk_schema' = CurrentSchema)]_vars

\* C26: _upgrade_schema takes an empty data file step by step to the current
\* version, and changes nothing of a data file that is at the current
\* version already.
C26_StepwiseIdempotentMigration ==
    [][(IsCall(call', "_upgrade_schema") /\ schema = disk_schema)
          => (/\ (call'.uuid = ToString(0) /\ EmptyFile(disk_schema))
                    => (err' = "" /\ disk_schema' = CurrentSchema)
              /\ (/\ call'.uuid = ToString(CURRENT_SCHEMA_VERSION)
                  /\ disk_schema = CurrentSchema)
                    => (/\ err' = ""
                        /\ disk_schema' = disk_schema
                        /\ schema' = schema))]_vars
\* The base DN, the attribute list, the scope and the filter of a URL.
SearchOf(u) == <<u.dn, u.attrs, u.scope, u.filterstr>>

C28_UrlIsOptionalOnceStored ==
    [][(IsCall(call', "__init__") /\ ldap_url'.kind = "None")
          => (/\ disk_url # NoUrl
                    => (err' \in {"", "SERVER_DOWN"} /\ disk_url' = disk_url)
              /\ disk_url = NoUrl
                    => (err' = "LDAPUrlError" /\ disk_url' = NoUrl))]_vars
C30_UnboundInstanceRaisesClosedError ==
    [][(Unbound /\ call'.op \in (Patched \cup Unpatched))
          => (/\ err' = "ClosedError"
              /\ events' = <<>>
              /\ UNCHANGED <<rows, cookie, disk, in_refresh, present_uuids,
                             has_present_uuids>>
              /\ UNCHANGED session
              /\ UNCHANGED store)]_vars
\* C31: in the callbacks of a handler call, every record_rename is made by
\* syncrepl_entry for the dn it was given, and the callback right after it is
\* the record_change of the entry under that dn.
C31_RenameThenChange ==
    [][\A i \in OfKind(events', "record_rename") :
          /\ IsEntryCall(call')
          /\ events'[i].new_dn = call'.dn
          /\ i < Len(events')
          /\ events'[i + 1].kind = "record_change"
          /\ events'[i + 1].dn = events'[i].new_dn]_vars

\* syncrepl_entry has just renamed an entry and reported its change.
C31_Witness ==
    /\ IsEntryCall(call)
    /\ err = ""
    /\ \E i \in OfKind(events, "record_rename") :
          /\ i < Len(events)
          /\ events[i + 1] = record_change(call.dn, events[i + 1].old_attrs, call.attrs)
          /\ events[i].new_dn = call.dn
          /\ \E r \in rows : r.uuid = call.uuid /\ r.dn = call.dn

\* C32: an entry for a uuid that has a row calls record_change once, with the
\* attributes the row held before the call as the old ones and the ones of
\* the call as the new ones, and leaves the row with the attributes of the
\* call.
C32_ChangeCarriesOldAndNew ==
    [][(IsEntryCall(call') /\ SelectByUuid(rows, call'.uuid) # {})
          => LET db_attrs == FetchOne(SelectByUuid(rows, call'.uuid)).attrs
             IN  /\ {events'[i] : i \in OfKind(events', "record_change")} =
                        {record_change(call'.dn, db_attrs, call'.attrs)}
                 /\ Cardinality(OfKind(events', "record_change")) = 1
                 /\ \A r \in SelectByUuid(rows', call'.uuid) : r.attrs = call'.attrs
                 /\ SelectByUuid(rows', call'.uuid) # {}]_vars

MessageHandlers ==
    {"syncrepl_entry", "syncrepl_delete", "syncrepl_present", "syncrepl_set_cookie"}

\* C34: a handler called for a message while the session is in its refresh
\* phase commits nothing: the data file keeps the records and the cookie it
\* held, so that a session constructed after a crash in mid-refresh finds
\* what the crashed one found.
C34_RefreshBuffersMutations ==
    [][(in_refresh /\ call'.op \in MessageHandlers) => disk' = disk]_vars

\* A session in its refresh phase, on a data file in which an earlier session
\* committed a row, has stored an entry and a cookie that are not committed.
C34_Witness ==
    /\ Refreshing
    /\ ~deleted
    /\ IsEntryCall(call)
    /\ err = ""
    /\ disk.rows # {}
    /\ rows # disk.rows
    /\ cookie # disk.cookie

C36_RollbackBeforePropagation ==
    [][(call'.op \in MessageHandlers /\ err' # "")
          => (rows' = rows \/ rows' = disk.rows)]_vars

\* C37: syncrepl_entry leaves the list of present uuids as it is, and
\* syncrepl_present(None, False) removes the row of every uuid that is not
\* in the list, the uuids that were stored but never listed among them.
C37_EntryLeavesPresentListAlone ==
    [][/\ IsEntryCall(call')
             => (/\ present_uuids' = present_uuids
                 /\ has_present_uuids' = has_present_uuids)
       /\ IsPresentCall(call', TRUE, FALSE)
             => \A r \in rows : r.uuid \notin present_uuids => r \notin rows']_vars

\* C38: between the calls of poll and please_stop the stop lock is free,
\* whether poll returned or raised.
C38_StopLockNeverLeftHeld == please_stop_lock = FALSE

\* C39: a Cancel is sent by poll only, and only while the stop flag is set;
\* the flag is set by please_stop only, and once set it stays set.
C39_CancelOnlyWhenStopRequested ==
    [][/\ (OfKind(events', "cancel") # {} \/ (cancel_sent' /\ ~cancel_sent))
             => (IsCall(call', "poll") /\ please_stop_value /\ please_stop_value')
       /\ (~please_stop_value /\ please_stop_value') => IsCall(call', "please_stop")
       /\ please_stop_value => please_stop_value']_vars

\* poll has just sent a Cancel, the stop flag being set.
C39_Witness ==
    /\ IsCall(call, "poll")
    /\ events = <<cancel>>
    /\ cancel_sent
    /\ please_stop_value
    /\ err = ""
====
